---- MODULE Spec2Model ----
(***************************************************************************)
(* A model of uthopiassh.py: the SSH connection pool (SSHConnectionPool),  *)
(* the command executor (AdvancedSSHAutomation.execute_command), the file  *)
(* transfer (transfer_file), the parallel dispatcher (execute_parallel)    *)
(* and the port forwarder (SSHTunnel).                                     *)
(*                                                                         *)
(* The caller's thread adds hosts, calls execute_parallel, transfer_file   *)
(* and cleanup.                                                            *)
(* execute_parallel submits one future per accepted label to a             *)
(* ThreadPoolExecutor; each worker runs execute_command, whose first step  *)
(* is SSHConnectionPool.get_connection under the pool's lock.  The network *)
(* and the remote hosts are the environment: a connect succeeds or fails,  *)
(* a transport may die at any time, a command channel may fail, a read may *)
(* fail to decode, and the exit status is the remote command's or -1.      *)
(*                                                                         *)
(* SSHTunnel.create_tunnel starts a worker thread that connects a session  *)
(* of its own, binds a local listener and, for every accepted connection,  *)
(* opens a direct-tcpip channel and starts two forward_data threads.  The  *)
(* local clients and the remote service are the environment.               *)
(*                                                                         *)
(* Spec is the pool, the executors and the dispatcher; TunnelSpec is the   *)
(* port forwarder, PoolTunnelSpec the forwarder next to the pool.  The     *)
(* Fair specifications add the fairness of the thread                      *)
(* scheduler.                                                              *)
(***************************************************************************)
EXTENDS Integers, Sequences, FiniteSets, TLC

\* ------------------------------------------------------------------ bounds

\* Longest list of host labels handed to one execute_parallel call.
MaxLen == 2

\* Number of execute_parallel calls the caller makes.
MaxCalls == 2

\* Number of futures the caller's execute_parallel calls submit in all.
MaxTasks == 2

\* Number of SSHClient sessions the network lets the pool connect.
MaxSessions == 3

\* Largest max_concurrent handed to AdvancedSSHAutomation(...), the worker
\* pool size.
MaxConcurrent == 2

\* Number of transfer_file calls the caller makes.
MaxTransfers == 1

\* Number of local connections the tunnel's listener accepts.
MaxConns == 2

\* --------------------------------------------------------------- data types

\* SSHHost: the fields that reach the pool and the results.
SSHHost(hostname, username, port) ==
    [hostname |-> hostname, username |-> username, port |-> port]

\* The add_host calls the caller makes before it runs commands, in order:
\* three identities, "db" being another user on server1's hostname.
Catalog ==
    <<[name |-> "server1", host |-> SSHHost("h1", "admin", 22)],
      [name |-> "server2", host |-> SSHHost("h2", "admin", 22)],
      [name |-> "db", host |-> SSHHost("h1", "root", 22)]>>

Labels == {Catalog[n].name : n \in DOMAIN Catalog}

\* The commands the caller runs.
Commands == {"uname -a", "exit 7"}

\* TaskResult without execution_time; error is <<>> for None, <<text>> else.
TaskResult(host, command, stdout, stderr, exit_code, success, error) ==
    [host |-> host, command |-> command, stdout |-> stdout, stderr |-> stderr,
     exit_code |-> exit_code, success |-> success, error |-> error]

\* str(e) of the exceptions the transport raises.
Str(e) ==
    CASE e = "socket.timeout" -> "timed out"
      [] e = "SSHException" -> "SSH session not active"
      [] e = "UnicodeDecodeError" -> "invalid start byte"

ConnectErrors == {"socket.timeout"}
ChannelErrors == {"SSHException"}
ReadErrors == {"UnicodeDecodeError"}

\* The exit status the remote shell gives a command that runs to completion.
RemoteStatus(command) == IF command = "exit 7" THEN 7 ELSE 0

\* What stdout.read() returns for a command that ran.
RemoteStdout(command) == IF command = "exit 7" THEN "" ELSE "Linux"

\* recv_exit_status(): the remote status, or -1 when the server sent none.
ExitStatuses(command) == {RemoteStatus(command), -1}

\* Mutant of HostKey: the key leaves the username out.
HostKeyNoUser(host) == host.hostname \o ":" \o ToString(host.port)

\* host_key = f"{host.username}@{host.hostname}:{host.port}"
HostKey(host) ==
    host.username \o "@" \o host.hostname \o ":" \o ToString(host.port)

\* ------------------------------------------------------------------- state

VARIABLES
    hosts,        \* AdvancedSSHAutomation.hosts: label -> SSHHost
    connections,  \* SSHConnectionPool.connections: host_key -> session id
    lock,         \* SSHConnectionPool.lock: 0 free, else the holding task
    sessions,     \* every SSHClient that connected, by session id: the host
                  \* it connected to, its transport ("active", "dead",
                  \* "closed"), where the pool has it ("pooled", "evicted",
                  \* "cleared") and whether close() was called on it
    mpc,          \* the caller's thread: "idle" or "collect" (in as_completed)
    calls,        \* execute_parallel calls made so far
    submitted,    \* futures submitted so far, over all calls
    hostsArg,     \* execute_parallel's hosts argument
    command,      \* execute_parallel's command argument
    hasCallback,  \* whether progress_callback was supplied
    tasks,        \* the futures of the current call, in submission order
    results,      \* execute_parallel's local results list
    resultsOf,    \* the future each element of results came from
    returned,     \* what the last execute_parallel call returned
    ledger,       \* AdvancedSSHAutomation.results
    raisedOut,    \* whether a pool or dispatcher call raised to its caller
    max_concurrent, \* AdvancedSSHAutomation.max_concurrent
    xfer,         \* the caller's transfer_file call: its position, the
                  \* session it borrowed, its direction and what it returned
    transfers,    \* transfer_file calls made so far
    tunnel,       \* SSHTunnel's tunnel_worker thread
    relays        \* the connections tunnel_worker accepted, in order

vars == <<hosts, connections, lock, sessions, mpc, calls, submitted, hostsArg, command,
          hasCallback, tasks, results, resultsOf, returned, ledger, raisedOut,
          max_concurrent, xfer, transfers, tunnel, relays>>

poolVars == <<connections, lock, sessions>>
callVars == <<mpc, calls, submitted, hostsArg, command, hasCallback, results, resultsOf,
              returned, ledger, raisedOut>>
xferVars == <<xfer, transfers>>
tunnelVars == <<tunnel, relays>>

\* What the dispatcher and its workers leave alone.
otherVars == <<max_concurrent, xferVars, tunnelVars>>

\* ----------------------------------------------------------- dict helpers

EmptyDict == [k \in {} |-> 0]

\* d[k] = v
Put(d, k, v) == [x \in DOMAIN d \cup {k} |-> IF x = k THEN v ELSE d[x]]

\* del d[k]
Del(d, k) == [x \in DOMAIN d \ {k} |-> d[x]]

\* The values of a dict.
Values(d) == {d[k] : k \in DOMAIN d}

\* ---------------------------------------------------------------- futures

\* A submitted future: the worker's position in execute_command, the
\* session it borrowed (ssh, 0 for none) and the future's outcome.  ev records
\* how execute_command ended, status what recv_exit_status() returned, cb and
\* cbRaised the callback's invocations.
NewTask(label, host) ==
    [label |-> label, host |-> host, pc |-> "queued", ssh |-> 0,
     ev |-> "none", status |-> 0, out |-> [kind |-> "none"], cb |-> 0,
     cbRaised |-> FALSE]

\* No transfer_file call was made yet.
NoTransfer == [pc |-> "none", ssh |-> 0, ev |-> "none", ret |-> FALSE]

\* tunnel_worker before create_tunnel started it: its position, its
\* SSHClient ("none", "active", "dead", "closed"), its listening socket and
\* how it ended.
NoTunnel == [pc |-> "idle", ssh |-> "none", listener |-> "none", ev |-> "none"]

Init ==
    /\ hosts = EmptyDict
    /\ connections = EmptyDict
    /\ lock = 0
    /\ sessions = <<>>
    /\ mpc = "idle"
    /\ calls = 0
    /\ submitted = 0
    /\ hostsArg = <<>>
    /\ command = ""
    /\ hasCallback = FALSE
    /\ tasks = <<>>
    /\ results = <<>>
    /\ resultsOf = <<>>
    /\ returned = <<>>
    /\ ledger = <<>>
    /\ raisedOut = FALSE
    /\ max_concurrent \in 1..MaxConcurrent
    /\ xfer = NoTransfer
    /\ transfers = 0
    /\ tunnel = NoTunnel
    /\ relays = <<>>

\* ------------------------------------------------- SSHConnectionPool

\* Mutant of LockFree: get_connection does not wait for the lock.
LockIgnored == TRUE

\* with self.lock: the lock can be taken.
LockFree == lock = 0

\* conn.get_transport() and conn.get_transport().is_active()
IsActive(s) == sessions[s].transport = "active"

\* Mutant of PoolHit: a pooled session is returned without the liveness test.
PoolHitUnchecked(k) == k \in DOMAIN connections

\* The pool hit: the key is present and its session is alive.
PoolHit(k) == k \in DOMAIN connections /\ IsActive(connections[k])

\* Mutant of Evict: the dead entry stays in the mapping.
EvictNothing(k) == connections

\* del self.connections[host_key] for a dead entry: the mapping afterwards.
Evict(k) == Del(connections, k)

\* The sessions after the dead entry of k left the pool.
EvictMark(k) ==
    IF k \in DOMAIN connections
    THEN [sessions EXCEPT ![connections[k]].pool = "evicted"]
    ELSE sessions

\* get_connection up to the connect: the worker takes the pool's lock and
\* looks its key up; it returns the live pooled session, releasing the lock,
\* or drops the dead entry and goes on to connect, keeping the lock.
GetConnCheck(i) ==
    /\ i \in DOMAIN tasks
    /\ tasks[i].pc = "start"
    /\ LockFree
    /\ LET k == HostKey(tasks[i].host)
       IN IF PoolHit(k)
          THEN /\ tasks' = [tasks EXCEPT ![i].pc = "connected",
                                         ![i].ssh = connections[k]]
               /\ UNCHANGED <<connections, sessions, lock>>
          ELSE /\ tasks' = [tasks EXCEPT ![i].pc = "connecting"]
               /\ connections' = Evict(k)
               /\ sessions' = EvictMark(k)
               /\ lock' = i
    /\ UNCHANGED <<hosts, callVars, otherVars>>

\* ------------------------------------- AdvancedSSHAutomation.execute_command

\* Mutant of Completed: success is set without looking at the exit status.
CompletedSuccessAlways(host, cmd, st) ==
    [kind |-> "result",
     r |-> TaskResult(host.hostname, cmd, RemoteStdout(cmd), "", st,
                      TRUE, <<>>)]

\* The normal return: the remote exit status, success = (exit_code == 0).
Completed(host, cmd, st) ==
    [kind |-> "result",
     r |-> TaskResult(host.hostname, cmd, RemoteStdout(cmd), "", st,
                      st = 0, <<>>)]

\* Mutant of HandleException: the exception leaves execute_command.
HandleExceptionRaises(host, cmd, e) == [kind |-> "raised", e |-> e]

\* except Exception as e: the failure result, returned, not raised.
HandleException(host, cmd, e) ==
    [kind |-> "result",
     r |-> TaskResult(host.hostname, cmd, "", "", -1, FALSE, <<Str(e)>>)]

\* self.connections[host_key] = ssh
Insert(k, s) == Put(connections, k, s)

\* The pool mapping a failed connect leaves behind.
AfterConnectFailure(k) == connections

\* get_connection, the connect, still under the lock: on success the new
\* session is pooled and returned; on failure the error reaches
\* execute_command's handler, which returns the failure result.
GetConnConnect(i) ==
    /\ i \in DOMAIN tasks
    /\ tasks[i].pc = "connecting"
    /\ LET k == HostKey(tasks[i].host)
           new == Len(sessions) + 1
       IN \/ /\ new <= MaxSessions
             /\ sessions' = Append(sessions,
                    [host |-> tasks[i].host, transport |-> "active",
                     pool |-> "pooled", closeTried |-> FALSE])
             /\ connections' = Insert(k, new)
             /\ tasks' = [tasks EXCEPT ![i].pc = "connected",
                                       ![i].ssh = new]
          \/ \E e \in ConnectErrors :
                /\ connections' = AfterConnectFailure(k)
                /\ tasks' = [tasks EXCEPT
                      ![i].pc = "done",
                      ![i].ev = "connect_failed",
                      ![i].out = HandleException(tasks[i].host, command, e)]
                /\ UNCHANGED sessions
    /\ lock' = 0
    /\ UNCHANGED <<hosts, callVars, otherVars>>

\* ssh.exec_command(command): opens the command channel, which fails on a
\* session whose transport is gone and may fail on a live one.
ExecCommand(i) ==
    /\ i \in DOMAIN tasks
    /\ tasks[i].pc = "connected"
    /\ \/ /\ IsActive(tasks[i].ssh)
          /\ tasks' = [tasks EXCEPT ![i].pc = "running"]
       \/ \E e \in ChannelErrors :
             /\ tasks' = [tasks EXCEPT
                   ![i].pc = "done",
                   ![i].ssh = 0,
                   ![i].ev = "channel_failed",
                   ![i].out = HandleException(tasks[i].host, command, e)]
    /\ UNCHANGED <<hosts, poolVars, callVars, otherVars>>

\* Mutant of Release: an executor closes the session it borrowed.
ReleaseCloses(s) == [sessions EXCEPT ![s].transport = "closed"]

\* The sessions after an executor is done with the session s it borrowed:
\* execute_command and transfer_file return without a call on the SSHClient,
\* transfer_file closing its sftp channel only.
Release(s) == sessions

\* stdout.read().decode, stderr.read().decode, recv_exit_status(): a read
\* or decode error, or the result with the exit status the transport gives.
FinishCommand(i) ==
    /\ i \in DOMAIN tasks
    /\ tasks[i].pc = "running"
    /\ \/ \E st \in ExitStatuses(command) :
             tasks' = [tasks EXCEPT
                 ![i].pc = "done",
                 ![i].ssh = 0,
                 ![i].ev = "completed",
                 ![i].status = st,
                 ![i].out = Completed(tasks[i].host, command, st)]
       \/ \E e \in ReadErrors :
             tasks' = [tasks EXCEPT
                 ![i].pc = "done",
                 ![i].ssh = 0,
                 ![i].ev = "read_failed",
                 ![i].out = HandleException(tasks[i].host, command, e)]
    /\ sessions' = Release(tasks[i].ssh)
    /\ UNCHANGED <<hosts, connections, lock, callVars, otherVars>>

\* ----------------------------------- AdvancedSSHAutomation.transfer_file

\* What open_sftp, stat, put and get raise.
TransferErrors(upload) ==
    IF upload THEN {"SSHException", "FileNotFoundError", "IOError"}
              ELSE {"SSHException", "IOError"}

\* transfer_file up to the return of get_connection(host), on the caller's
\* thread with no worker running: the live pooled session, or a new one
\* after the dead entry was dropped, or the connect error, which
\* transfer_file's handler turns into the return value False.  The caller
\* transfers its files before it runs commands.
TransferStart(l) ==
    /\ mpc = "idle"
    /\ transfers < MaxTransfers
    /\ calls = 0
    /\ l \in DOMAIN hosts
    /\ LockFree
    /\ transfers' = transfers + 1
    /\ LET k == HostKey(hosts[l])
           new == Len(sessions) + 1
       IN IF PoolHit(k)
          THEN /\ xfer' = [pc |-> "connected", ssh |-> connections[k],
                           ev |-> "none", ret |-> FALSE]
               /\ mpc' = "transfer"
               /\ UNCHANGED <<connections, sessions>>
          ELSE \/ /\ new <= MaxSessions
                  /\ sessions' = Append(EvictMark(k),
                         [host |-> hosts[l], transport |-> "active",
                          pool |-> "pooled", closeTried |-> FALSE])
                  /\ connections' = Insert(k, new)
                  /\ xfer' = [pc |-> "connected", ssh |-> new,
                              ev |-> "none", ret |-> FALSE]
                  /\ mpc' = "transfer"
               \/ \E e \in ConnectErrors :
                     /\ sessions' = EvictMark(k)
                     /\ connections' = Evict(k)
                     /\ xfer' = [pc |-> "done", ssh |-> 0,
                                 ev |-> "connect_failed", ret |-> FALSE]
                     /\ mpc' = "idle"
    /\ UNCHANGED <<hosts, lock, tasks, calls, submitted, hostsArg, command,
                   hasCallback, results, resultsOf, returned, ledger, raisedOut,
                   max_concurrent, tunnelVars>>

\* transfer_file after get_connection: open_sftp, the put or get, and
\* sftp.close(): True, or False after any exception.
TransferFinish(upload) ==
    /\ mpc = "transfer"
    /\ xfer.pc = "connected"
    /\ \/ /\ IsActive(xfer.ssh)
          /\ xfer' = [pc |-> "done", ssh |-> 0, ev |-> "transferred",
                      ret |-> TRUE]
       \/ \E e \in TransferErrors(upload) :
             xfer' = [pc |-> "done", ssh |-> 0, ev |-> "failed", ret |-> FALSE]
    /\ sessions' = Release(xfer.ssh)
    /\ mpc' = "idle"
    /\ UNCHANGED <<hosts, connections, lock, tasks, calls, submitted, hostsArg,
                   command, hasCallback, results, resultsOf, returned, ledger,
                   raisedOut, max_concurrent, transfers, tunnelVars>>

\* The sessions the program still refers to: pooled, or borrowed by a worker.
Referenced ==
    Values(connections) \cup
    {tasks[j].ssh : j \in {x \in DOMAIN tasks :
                              tasks[x].pc \in {"connected", "running"}}} \cup
    (IF xfer.pc = "connected" THEN {xfer.ssh} ELSE {})

\* The network: the transport of a connected session goes down.
TransportDies(s) ==
    /\ s \in Referenced
    /\ sessions[s].transport = "active"
    /\ sessions' = [sessions EXCEPT ![s].transport = "dead"]
    /\ UNCHANGED <<hosts, connections, lock, tasks, callVars, otherVars>>

\* ------------------------------------ AdvancedSSHAutomation, the caller side

\* add_host(name, host): self.hosts[name] = host
AddHost(n) ==
    /\ mpc = "idle"
    /\ calls = 0
    /\ n \in DOMAIN Catalog
    /\ n = Cardinality(DOMAIN hosts) + 1
    /\ hosts' = Put(hosts, Catalog[n].name, Catalog[n].host)
    /\ UNCHANGED <<poolVars, tasks, callVars, otherVars>>

\* The lists of labels a caller hands to execute_parallel.
LabelLists == UNION {[1..n -> Labels] : n \in 0..MaxLen}

\* Mutant of Accepted: futures keyed by label, so a label listed twice gets
\* one future.
AcceptedOnce(hs) ==
    SelectSeq([n \in DOMAIN hs |->
                  IF \E m \in 1..(n - 1) : hs[m] = hs[n] THEN "" ELSE hs[n]],
              LAMBDA l : l \in DOMAIN hosts)

\* for host in hosts if host in self.hosts: the labels that get a future,
\* one per listed occurrence, in list order.
Accepted(hs) == SelectSeq(hs, LAMBDA l : l \in DOMAIN hosts)

\* A worker thread is busy with a future from its start to its completion.
Busy == {j \in DOMAIN tasks : tasks[j].pc \notin {"queued", "done", "collected"}}

\* Mutant of WorkerFree: the executor starts a thread per future.
WorkerUnbounded == TRUE

\* ThreadPoolExecutor(max_workers=self.max_concurrent): a free worker exists.
WorkerFree == Cardinality(Busy) < max_concurrent

\* execute_parallel, up to the as_completed loop: one future is submitted
\* per accepted label.
ExecuteParallel(hs, cmd, cb) ==
    /\ mpc = "idle"
    /\ calls < MaxCalls
    /\ LET acc == Accepted(hs)
       IN /\ submitted + Len(acc) <= MaxTasks
          /\ submitted' = submitted + Len(acc)
          /\ tasks' = [j \in 1..Len(acc) |-> NewTask(acc[j], hosts[acc[j]])]
    /\ mpc' = "collect"
    /\ calls' = calls + 1
    /\ hostsArg' = hs
    /\ command' = cmd
    /\ hasCallback' = cb
    /\ results' = <<>>
    /\ resultsOf' = <<>>
    /\ UNCHANGED <<hosts, poolVars, returned, ledger, raisedOut, otherVars>>

\* A worker thread takes the oldest queued future and enters
\* execute_command.
WorkerStart(i) ==
    /\ i \in DOMAIN tasks
    /\ tasks[i].pc = "queued"
    /\ \A j \in 1..(i - 1) : tasks[j].pc # "queued"
    /\ WorkerFree
    /\ tasks' = [tasks EXCEPT ![i].pc = "start"]
    /\ UNCHANGED <<hosts, poolVars, callVars, otherVars>>

\* Mutant of CollectResults: the callback is invoked before the append.
CollectCallbackFirst(res, r, raises) == IF raises THEN res ELSE Append(res, r)

\* The try body of the as_completed loop: results.append(result), then the
\* callback, which may raise.
CollectResults(res, r, raises) == Append(res, r)

\* Whether an exception of the loop body leaves execute_parallel: the
\* except clause of the loop logs it.
Escapes(raises) == FALSE

\* One iteration of the as_completed loop, for a completed future.
Collect(i) ==
    /\ mpc = "collect"
    /\ i \in DOMAIN tasks
    /\ tasks[i].pc = "done"
    /\ LET out == tasks[i].out
       IN IF out.kind = "result"
          THEN \E raises \in (IF hasCallback THEN BOOLEAN ELSE {FALSE}) :
                 /\ results' = CollectResults(results, out.r, raises)
                 /\ resultsOf' = IF Len(results') > Len(results)
                                 THEN Append(resultsOf, i) ELSE resultsOf
                 /\ tasks' = [tasks EXCEPT
                       ![i].pc = "collected",
                       ![i].cb = @ + (IF hasCallback THEN 1 ELSE 0),
                       ![i].cbRaised = raises]
                 /\ mpc' = IF Escapes(raises) THEN "raised" ELSE "collect"
                 /\ raisedOut' = (raisedOut \/ Escapes(raises))
          ELSE /\ tasks' = [tasks EXCEPT ![i].pc = "collected"]
               /\ UNCHANGED <<results, resultsOf, mpc, raisedOut>>
    /\ UNCHANGED <<hosts, poolVars, calls, submitted, hostsArg, command,
                   hasCallback, returned, ledger, otherVars>>

\* Mutant of Extend: the ledger is replaced by the call's results.
ExtendReplaces(l, res) == res

\* self.results.extend(results)
Extend(l, res) == l \o res

\* execute_parallel's end: every future was yielded, the executor has shut
\* down; self.results.extend(results); return results.
Return ==
    /\ mpc = "collect"
    /\ \A j \in DOMAIN tasks : tasks[j].pc = "collected"
    /\ ledger' = Extend(ledger, results)
    /\ returned' = results
    /\ mpc' = "idle"
    /\ tasks' = <<>>
    /\ hostsArg' = <<>>
    /\ command' = ""
    /\ hasCallback' = FALSE
    /\ results' = <<>>
    /\ resultsOf' = <<>>
    /\ UNCHANGED <<hosts, poolVars, calls, submitted, raisedOut, otherVars>>

\* Mutant of CloseAllResult: no try/except around close(), so the first
\* close() that raises ends close_all before clear().
CloseAllAborts(R) ==
    IF R = {}
    THEN [sessions |->
             [s \in DOMAIN sessions |->
                 IF s \in Values(connections)
                 THEN [sessions[s] EXCEPT !.transport = "closed",
                                          !.closeTried = TRUE,
                                          !.pool = "cleared"]
                 ELSE sessions[s]],
          connections |-> EmptyDict,
          raised |-> FALSE]
    ELSE [sessions |->
             [sessions EXCEPT ![CHOOSE s \in R : TRUE].closeTried = TRUE],
          connections |-> connections,
          raised |-> TRUE]

\* close_all's loop and clear(), for the set R of sessions whose close()
\* raises: every pooled session has close() called, a close that raises is
\* swallowed and leaves the session as it was, and the mapping is emptied.
CloseAllResult(R) ==
    [sessions |->
        [s \in DOMAIN sessions |->
            IF s \in Values(connections)
            THEN [sessions[s] EXCEPT
                    !.transport = IF s \in R THEN @ ELSE "closed",
                    !.closeTried = TRUE,
                    !.pool = "cleared"]
            ELSE sessions[s]],
     connections |-> EmptyDict,
     raised |-> FALSE]

\* cleanup() / close_all(), called by the caller's thread between
\* execute_parallel calls.
CloseAll ==
    /\ mpc = "idle"
    /\ LockFree
    /\ \E R \in SUBSET Values(connections) :
          LET res == CloseAllResult(R)
          IN /\ sessions' = res.sessions
             /\ connections' = res.connections
             /\ raisedOut' = (raisedOut \/ res.raised)
    /\ UNCHANGED <<hosts, lock, tasks, mpc, calls, submitted, hostsArg, command,
                   hasCallback, results, resultsOf, returned, ledger, otherVars>>

\* ------------------------------------------------------------ specification

Next ==
    \/ \E n \in DOMAIN Catalog : AddHost(n)
    \/ \E hs \in LabelLists, cmd \in Commands, cb \in BOOLEAN :
          ExecuteParallel(hs, cmd, cb)
    \/ \E i \in 1..MaxLen : WorkerStart(i)
    \/ \E i \in 1..MaxLen : GetConnCheck(i)
    \/ \E i \in 1..MaxLen : GetConnConnect(i)
    \/ \E i \in 1..MaxLen : ExecCommand(i)
    \/ \E i \in 1..MaxLen : FinishCommand(i)
    \/ \E i \in 1..MaxLen : Collect(i)
    \/ Return
    \/ CloseAll
    \/ \E s \in 1..MaxSessions : TransportDies(s)

\* The dispatcher and the pool: the caller adds hosts, runs commands and
\* cleans up.
Spec == Init /\ [][Next]_vars

\* The steps of the worker thread that runs future i.
WorkerStep(i) ==
    \/ WorkerStart(i)
    \/ GetConnCheck(i)
    \/ GetConnConnect(i)
    \/ ExecCommand(i)
    \/ FinishCommand(i)

\* The thread scheduler runs every worker that can take a step; a connect
\* ends (SSHHost.timeout) and a remote command ends.
Fairness == \A i \in 1..MaxLen : WF_vars(WorkerStep(i))

FairSpec == Spec /\ Fairness

\* The labels the caller transfers files to.
TransferLabels == {"server2"}

\* The executors and the pool: the caller adds hosts, transfers a file, runs
\* one command without a callback and cleans up.
BorrowNext ==
    \/ \E n \in DOMAIN Catalog : AddHost(n)
    \/ \E l \in TransferLabels : TransferStart(l)
    \/ \E upload \in BOOLEAN : TransferFinish(upload)
    \/ \E hs \in LabelLists : ExecuteParallel(hs, "uname -a", FALSE)
    \/ \E i \in 1..MaxLen : WorkerStart(i)
    \/ \E i \in 1..MaxLen : GetConnCheck(i)
    \/ \E i \in 1..MaxLen : GetConnConnect(i)
    \/ \E i \in 1..MaxLen : ExecCommand(i)
    \/ \E i \in 1..MaxLen : FinishCommand(i)
    \/ \E i \in 1..MaxLen : Collect(i)
    \/ Return
    \/ CloseAll
    \/ \E s \in 1..MaxSessions : TransportDies(s)

\* AdvancedSSHAutomation(max_concurrent=MaxConcurrent)
BorrowInit == Init /\ max_concurrent = MaxConcurrent

BorrowSpec == BorrowInit /\ [][BorrowNext]_vars

\* ---------------------------------------------------------------- SSHTunnel

\* What the port forwarder leaves alone.
dispatchVars == <<hosts, poolVars, tasks, callVars, max_concurrent, xferVars>>

\* The thread forward_data(client_socket, channel) is "up", the thread
\* forward_data(channel, client_socket) is "down".
Directions == {"up", "down"}

\* source and destination of forward_data, as fields of a relay record.
Source(d) == IF d = "up" THEN "sock" ELSE "chan"
Destination(d) == IF d = "up" THEN "chan" ELSE "sock"

\* An accepted connection: client_socket, its channel ("none" until
\* open_channel returned) and the positions of its two forward_data threads:
\* "recv" (in source.recv), "blocked" (in the recv system call of a socket
\* that was closed under it), "send" (in destination.send), "finally" (before
\* source.close()), "closing" (before destination.close()) and "done".
NewRelay == [sock |-> "open", chan |-> "none", up |-> "none", down |-> "none"]

\* create_tunnel: thread.start() on tunnel_worker.
CreateTunnel ==
    /\ tunnel.pc = "idle"
    /\ tunnel' = [tunnel EXCEPT !.pc = "connecting"]
    /\ UNCHANGED <<relays, dispatchVars>>

\* tunnel_worker's except and finally: the error is logged, ssh.close() is
\* called and the thread ends.
TunnelStop(ev) == [tunnel EXCEPT !.pc = "stopped", !.ssh = "closed", !.ev = ev]

\* The relays after the transport went away (ssh.close(), or the network):
\* the transport closes every channel it carries.
ClosedByTransport ==
    [c \in DOMAIN relays |->
        [relays[c] EXCEPT !.chan = IF @ = "open" THEN "closed" ELSE @]]

\* ssh.connect(...) in tunnel_worker.
TunnelConnect ==
    /\ tunnel.pc = "connecting"
    /\ \/ tunnel' = [tunnel EXCEPT !.pc = "binding", !.ssh = "active"]
       \/ \E e \in ConnectErrors : tunnel' = TunnelStop("connect_failed")
    /\ UNCHANGED <<relays, dispatchVars>>

\* socket(), bind(('localhost', local_port)), listen(1); bind raises when
\* the port is taken.
TunnelBind ==
    /\ tunnel.pc = "binding"
    /\ \/ tunnel' = [tunnel EXCEPT !.pc = "accept", !.listener = "listening"]
       \/ tunnel' = TunnelStop("bind_failed")
    /\ UNCHANGED <<relays, dispatchVars>>

\* local_socket.accept() returns the socket of a client that connected.
TunnelAccept ==
    /\ tunnel.pc = "accept"
    /\ Len(relays) < MaxConns
    /\ relays' = Append(relays, NewRelay)
    /\ tunnel' = [tunnel EXCEPT !.pc = "opening"]
    /\ UNCHANGED dispatchVars

\* Mutant of AfterRelayStart: the worker serves one connection and ends.
AfterRelayStartStops == "stopped"

\* Where tunnel_worker goes after it started the relay threads of a
\* connection: the while True loop takes it back to accept().
AfterRelayStart == "accept"

\* transport.open_channel('direct-tcpip', ...) for the connection just
\* accepted, and the start of its relay threads.  When it raises (the remote
\* end refuses, or the transport is gone) the exception leaves the while
\* loop: the handler logs it, finally closes the SSHClient, and the thread
\* ends; client_socket is not closed.
TunnelOpenChannel ==
    /\ tunnel.pc = "opening"
    /\ LET n == Len(relays)
       IN \/ /\ tunnel.ssh = "active"
             /\ relays' = [relays EXCEPT ![n].chan = "open",
                                         ![n].up = "recv",
                                         ![n].down = "recv"]
             /\ tunnel' = [tunnel EXCEPT !.pc = AfterRelayStart]
          \/ \E e \in ChannelErrors :
                /\ tunnel' = TunnelStop("channel_failed")
                /\ relays' = ClosedByTransport
    /\ UNCHANGED dispatchVars

\* The network: the tunnel's transport goes down.
TunnelTransportDies ==
    /\ tunnel.ssh = "active"
    /\ tunnel' = [tunnel EXCEPT !.ssh = "dead"]
    /\ relays' = ClosedByTransport
    /\ UNCHANGED dispatchVars

\* data = source.recv(4096) returns bytes: the peer sent some.
RecvData(c, d) ==
    /\ c \in DOMAIN relays
    /\ relays[c][d] = "recv"
    /\ relays[c][Source(d)] = "open"
    /\ relays' = [relays EXCEPT ![c][d] = "send"]
    /\ UNCHANGED <<tunnel, dispatchVars>>

\* source.recv on an open source returns b'' (the peer closed) or raises
\* (the connection was reset): the loop is left.
RecvEnd(c, d) ==
    /\ c \in DOMAIN relays
    /\ relays[c][d] = "recv"
    /\ relays[c][Source(d)] = "open"
    /\ relays' = [relays EXCEPT ![c][d] = "finally"]
    /\ UNCHANGED <<tunnel, dispatchVars>>

\* source.recv on a source that was closed: Channel.recv returns b'' and
\* socket.recv raises; the loop is left.
RecvClosed(c, d) ==
    /\ c \in DOMAIN relays
    /\ relays[c][d] = "recv"
    /\ relays[c][Source(d)] = "closed"
    /\ relays' = [relays EXCEPT ![c][d] = "finally"]
    /\ UNCHANGED <<tunnel, dispatchVars>>

\* A recv system call that was in progress when the other thread closed the
\* socket returns only when the client sends bytes or closes its end.
BlockedWake(c) ==
    /\ c \in DOMAIN relays
    /\ relays[c].up = "blocked"
    /\ \E to \in {"send", "finally"} : relays' = [relays EXCEPT ![c].up = to]
    /\ UNCHANGED <<tunnel, dispatchVars>>

\* destination.send(data): back to recv, or an exception (the destination
\* is closed, or the write fails), which the bare except swallows.
Send(c, d) ==
    /\ c \in DOMAIN relays
    /\ relays[c][d] = "send"
    /\ \/ /\ relays[c][Destination(d)] = "open"
          /\ relays' = [relays EXCEPT ![c][d] = "recv"]
       \/ relays' = [relays EXCEPT ![c][d] = "finally"]
    /\ UNCHANGED <<tunnel, dispatchVars>>

\* finally: source.close(); closing a closed endpoint does nothing.
CloseSource(c, d) ==
    /\ c \in DOMAIN relays
    /\ relays[c][d] = "finally"
    /\ relays' = [relays EXCEPT ![c][Source(d)] = "closed",
                                ![c][d] = "closing"]
    /\ UNCHANGED <<tunnel, dispatchVars>>

\* The positions the "up" thread can be at after the "down" thread closed
\* client_socket.  close() of a descriptor that another thread is reading
\* from is a race whose outcome depends on the platform: the reader fails at
\* once, or (Linux, close(2)) its recv system call keeps the connection
\* open and goes on waiting for the client.
AfterSocketClose(up) == IF up = "recv" THEN {"recv", "blocked"} ELSE {up}

\* finally: destination.close(), and the thread ends.
CloseDest(c, d) ==
    /\ c \in DOMAIN relays
    /\ relays[c][d] = "closing"
    /\ IF d = "down" /\ relays[c].sock = "open"
       THEN \E up \in AfterSocketClose(relays[c].up) :
               relays' = [relays EXCEPT ![c].sock = "closed",
                                        ![c].down = "done",
                                        ![c].up = up]
       ELSE relays' = [relays EXCEPT ![c][Destination(d)] = "closed",
                                     ![c][d] = "done"]
    /\ UNCHANGED <<tunnel, dispatchVars>>

TunnelNext ==
    \/ CreateTunnel
    \/ TunnelConnect
    \/ TunnelBind
    \/ TunnelAccept
    \/ TunnelOpenChannel
    \/ TunnelTransportDies
    \/ \E c \in 1..MaxConns, d \in Directions : RecvData(c, d)
    \/ \E c \in 1..MaxConns, d \in Directions : RecvEnd(c, d)
    \/ \E c \in 1..MaxConns, d \in Directions : RecvClosed(c, d)
    \/ \E c \in 1..MaxConns : BlockedWake(c)
    \/ \E c \in 1..MaxConns, d \in Directions : Send(c, d)
    \/ \E c \in 1..MaxConns, d \in Directions : CloseSource(c, d)
    \/ \E c \in 1..MaxConns, d \in Directions : CloseDest(c, d)

\* The port forwarder: one create_tunnel call, its clients and its relays.
TunnelSpec == Init /\ [][TunnelNext]_vars

\* The steps a forward_data thread takes without waiting for its peer.
RelayStep(c, d) ==
    \/ RecvClosed(c, d)
    \/ Send(c, d)
    \/ CloseSource(c, d)
    \/ CloseDest(c, d)

\* The thread scheduler runs every relay thread that can take a step; the
\* clients and the remote service are not obliged to do anything.
TunnelFairness ==
    \A c \in 1..MaxConns, d \in Directions : WF_vars(RelayStep(c, d))

FairTunnelSpec == TunnelSpec /\ TunnelFairness

\* SSHTunnel(host): the host the caller forwards a port through, the one it
\* also transfers files to.
TunnelHost == Catalog[2].host

\* The port forwarder next to the pool: the caller adds hosts, transfers a
\* file, starts a tunnel and cleans up.
PoolTunnelNext ==
    \/ \E n \in DOMAIN Catalog : AddHost(n)
    \/ \E l \in TransferLabels : TransferStart(l)
    \/ \E upload \in BOOLEAN : TransferFinish(upload)
    \/ CloseAll
    \/ \E s \in 1..MaxSessions : TransportDies(s)
    \/ TunnelNext

PoolTunnelSpec == BorrowInit /\ [][PoolTunnelNext]_vars

\* ------------------------------------------------------------------ claims

\* The pooled sessions of an identity.
PooledFor(host) == {s \in Values(connections) : sessions[s].host = host}

\* The futures whose worker is at one of the given positions.
At(pcs) == {i \in DOMAIN tasks : tasks[i].pc \in pcs}

\* C1: under any interleaving of get_connection calls the pool holds at most
\* one session per identity, at most one caller is in the check-then-create
\* section, no connected session leaves the mapping except by eviction of a
\* dead entry or close_all (so a racing second connect never replaces a
\* first), and callers of one identity whose sessions are both still pooled
\* hold the same session.
C1_OneSessionPerIdentity ==
    /\ \A s \in DOMAIN sessions :
          sessions[s].pool = "pooled" => s \in Values(connections)
    /\ \A s1, s2 \in Values(connections) :
          sessions[s1].host = sessions[s2].host => s1 = s2
    /\ Cardinality(At({"connecting"})) <= 1
    /\ \A i, j \in DOMAIN tasks :
          /\ tasks[i].ssh # 0 /\ tasks[j].ssh # 0
          /\ tasks[i].host = tasks[j].host
          /\ sessions[tasks[i].ssh].pool = "pooled"
          /\ sessions[tasks[j].ssh].pool = "pooled"
          => tasks[i].ssh = tasks[j].ssh

\* C1 witness: two futures of the first call, same identity, hold the one
\* session that was ever connected.
C1_Witness ==
    /\ calls = 1
    /\ Len(sessions) = 1
    /\ \E i, j \in DOMAIN tasks :
          /\ i # j
          /\ tasks[i].host = tasks[j].host
          /\ tasks[i].ssh = 1 /\ tasks[j].ssh = 1

\* C2: a caller only ever holds a session connected to its own identity, so
\* callers of distinct identities hold different session objects; and a
\* get_connection that finds its identity's pooled transport active returns
\* that very session and connects nothing.
C2_SessionPerIdentity ==
    /\ [](\A i \in DOMAIN tasks :
            tasks[i].ssh # 0 => sessions[tasks[i].ssh].host = tasks[i].host)
    /\ [][\A i \in DOMAIN tasks :
            /\ tasks[i].pc = "start"
            /\ tasks'[i].pc # "start"
            /\ \E s \in PooledFor(tasks[i].host) :
                  sessions[s].transport = "active"
            => /\ tasks'[i].pc = "connected"
               /\ tasks'[i].ssh \in PooledFor(tasks[i].host)
               /\ sessions' = sessions
               /\ connections' = connections]_vars

\* C2 witness: the second call's future holds session 1, the only session
\* ever connected, which the first call's command ran on.
C2_Witness ==
    /\ calls = 2
    /\ Len(ledger) = 1
    /\ ledger[1].error = <<>>
    /\ Len(sessions) = 1
    /\ \E i \in DOMAIN tasks : tasks[i].pc = "connected" /\ tasks[i].ssh = 1

\* C3: a get_connection that finds its identity's pooled session inactive
\* removes it and goes on to connect; the call then returns a session that
\* did not exist before, now pooled for the identity, or fails with the
\* connect error.  It never returns the old session.
C3_DeadSessionReplaced ==
    [][\A i \in DOMAIN tasks :
        /\ ( /\ tasks[i].pc = "start"
             /\ tasks'[i].pc # "start"
             /\ \E s \in PooledFor(tasks[i].host) :
                   sessions[s].transport # "active"
             => /\ tasks'[i].pc = "connecting"
                /\ tasks'[i].ssh = 0
                /\ PooledFor(tasks[i].host)' = {} )
        /\ ( /\ tasks[i].pc = "connecting"
             /\ tasks'[i].pc # "connecting"
             => \/ /\ tasks'[i].pc = "connected"
                   /\ tasks'[i].ssh \notin DOMAIN sessions
                   /\ PooledFor(tasks[i].host)' = {tasks'[i].ssh}
                   /\ sessions'[tasks'[i].ssh].transport = "active"
                \/ /\ tasks'[i].pc = "done"
                   /\ tasks'[i].ev = "connect_failed"
                   /\ tasks'[i].out.kind = "result"
                   /\ tasks'[i].out.r.error # <<>> )]_vars

\* C3 witness: a future holds a new pooled session of its identity while an
\* older session of the same identity was evicted as dead.
C3_Witness ==
    \E i \in DOMAIN tasks :
        /\ tasks[i].pc = "connected"
        /\ PooledFor(tasks[i].host) = {tasks[i].ssh}
        /\ \E s \in DOMAIN sessions :
              /\ s < tasks[i].ssh
              /\ sessions[s].host = tasks[i].host
              /\ sessions[s].pool = "evicted"

\* C4: a failed connect is reported to the caller, with no second attempt;
\* it creates no session, leaves no entry for its identity in the pool (a
\* dead entry having been evicted first), leaves every other entry as it
\* was, and releases the lock.
C4_ConnectFailure ==
    [][\A i \in DOMAIN tasks :
        /\ ( /\ tasks[i].pc = "connecting"
             /\ tasks'[i].pc = "done"
             => /\ tasks'[i].ev = "connect_failed"
                /\ tasks'[i].out.kind = "result"
                /\ tasks'[i].out.r.error \in {<<Str(e)>> : e \in ConnectErrors}
                /\ sessions' = sessions
                /\ lock' = 0
                /\ PooledFor(tasks[i].host)' = {}
                /\ DOMAIN connections' \subseteq DOMAIN connections
                /\ \A k \in DOMAIN connections :
                      sessions[connections[k]].host # tasks[i].host
                      => /\ k \in DOMAIN connections'
                         /\ connections'[k] = connections[k] )
        /\ ( tasks[i].pc = "done" /\ tasks[i].ev = "connect_failed"
             => tasks' = <<>> \/ tasks'[i].pc \in {"done", "collected"} )]_vars

\* C4 witness: a connect failed after a dead entry of the identity was
\* evicted; the identity has no entry and the lock is free.
C4_Witness ==
    \E i \in DOMAIN tasks :
        /\ tasks[i].pc = "done"
        /\ tasks[i].ev = "connect_failed"
        /\ lock = 0
        /\ PooledFor(tasks[i].host) = {}
        /\ \E s \in DOMAIN sessions :
              sessions[s].host = tasks[i].host /\ sessions[s].pool = "evicted"

\* C5: close_all never raises; it calls close() on every pooled session,
\* also when some close() raises, and leaves the mapping empty with the lock
\* free, so that no later caller is handed a session close_all went through.
C5_CloseAll ==
    /\ [](~raisedOut)
    /\ [](\A i \in DOMAIN tasks :
            tasks[i].ssh # 0 => ~sessions[tasks[i].ssh].closeTried)
    /\ [][CloseAll =>
            /\ connections' = EmptyDict
            /\ lock' = 0
            /\ \A s \in Values(connections) : sessions'[s].closeTried]_vars

\* C5 witness: close_all emptied a pool of two sessions, the close() of one
\* having raised (it is still active) and the other being closed.
C5_Witness ==
    /\ mpc = "idle"
    /\ connections = EmptyDict
    /\ \E s1, s2 \in DOMAIN sessions :
          /\ sessions[s1].closeTried /\ sessions[s1].transport = "active"
          /\ sessions[s2].closeTried /\ sessions[s2].transport = "closed"

\* Every future of the call was yielded by as_completed.
AllCollected ==
    mpc = "collect" /\ \A j \in DOMAIN tasks : tasks[j].pc = "collected"

\* The positions in results of the result of future i.
ResultsFor(i) == {n \in DOMAIN resultsOf : resultsOf[n] = i}

\* C6: execute_parallel submits one future per listed occurrence of a label
\* of the inventory and none for an absent label; when it returns, the
\* returned list holds exactly one TaskResult per such future, and the call
\* does not raise.
C6_OneResultPerAcceptedLabel ==
    /\ [](mpc = "collect" =>
            \A l \in Labels :
               Cardinality({i \in DOMAIN tasks : tasks[i].label = l})
                 = IF l \in DOMAIN hosts
                   THEN Cardinality({n \in DOMAIN hostsArg : hostsArg[n] = l})
                   ELSE 0)
    /\ [](AllCollected =>
            /\ Len(results) = Cardinality({n \in DOMAIN hostsArg :
                                              hostsArg[n] \in DOMAIN hosts})
            /\ \A i \in DOMAIN tasks : Cardinality(ResultsFor(i)) = 1)
    /\ [][mpc = "collect" /\ mpc' # "collect" =>
            /\ AllCollected
            /\ mpc' = "idle"
            /\ returned' = results
            /\ ~raisedOut']_vars

\* C6 witness: a list of two labels, one of them absent from the inventory,
\* has produced one result.
C6_Witness ==
    /\ AllCollected
    /\ Len(hostsArg) = 2
    /\ hostsArg[1] \notin DOMAIN hosts
    /\ hostsArg[2] \in DOMAIN hosts
    /\ Len(results) = 1

\* C7: every finished future carries a TaskResult of its own host whose
\* success says whether its own command completed with status 0, whatever
\* happened to the other futures; every one of them is in the results when
\* the loop ends, and execute_parallel does not raise.
C7_FailureIsolation ==
    /\ ~raisedOut
    /\ mpc # "raised"
    /\ \A i \in At({"done", "collected"}) :
          /\ tasks[i].out.kind = "result"
          /\ tasks[i].out.r.host = tasks[i].host.hostname
          /\ tasks[i].out.r.success
               = (tasks[i].ev = "completed" /\ tasks[i].status = 0)
    /\ AllCollected =>
          \A i \in DOMAIN tasks :
             \E n \in DOMAIN results :
                resultsOf[n] = i /\ results[n] = tasks[i].out.r

\* C7 witness: of two futures one failed to connect and the other's command
\* succeeded, and both results were collected.
C7_Witness ==
    /\ AllCollected
    /\ Len(results) = 2
    /\ \E i, j \in DOMAIN tasks :
          /\ tasks[i].ev = "connect_failed"
          /\ ~tasks[i].out.r.success
          /\ tasks[j].ev = "completed"
          /\ tasks[j].out.r.success

\* C8: a supplied callback is invoked exactly once for every collected
\* future, successful or failed, and never without one; a callback that
\* raises leaves the future's result in the results, which reach the ledger
\* on return, and leaves execute_parallel in its loop.
C8_CallbackOncePerUnit ==
    /\ [](/\ ~raisedOut
          /\ mpc # "raised"
          /\ \A i \in DOMAIN tasks :
                IF tasks[i].pc = "collected"
                THEN /\ tasks[i].cb = (IF hasCallback THEN 1 ELSE 0)
                     /\ \E n \in DOMAIN results :
                           /\ ResultsFor(i) = {n}
                           /\ results[n] = tasks[i].out.r
                ELSE tasks[i].cb = 0 /\ ResultsFor(i) = {})
    /\ [][mpc = "collect" /\ mpc' = "idle" =>
            ledger' = ledger \o results /\ returned' = results]_vars

\* C8 witness: the callback raised for the future collected first, was
\* invoked for the other one too, and both results are there.
C8_Witness ==
    /\ AllCollected
    /\ hasCallback
    /\ Len(results) = 2
    /\ tasks[resultsOf[1]].cbRaised
    /\ tasks[resultsOf[2]].cb = 1
    /\ \E i \in DOMAIN tasks : ~tasks[i].out.r.success

\* C9: execute_command always ends by returning a TaskResult.  After an
\* exception (connect, channel, read or decode) it has success = FALSE,
\* exit_code = -1, empty stdout and stderr and the exception's text as
\* error; after a completed command it has the exit status the transport
\* returned, success = (exit_code = 0) and no error.
C9_ExecuteCommandResult ==
    \A i \in At({"done", "collected"}) :
       LET t == tasks[i]
           errs == CASE t.ev = "connect_failed" -> ConnectErrors
                     [] t.ev = "channel_failed" -> ChannelErrors
                     [] t.ev = "read_failed" -> ReadErrors
                     [] OTHER -> {}
       IN /\ t.out.kind = "result"
          /\ t.ev \in {"connect_failed", "channel_failed", "read_failed",
                       "completed"}
          /\ t.out.r.host = t.host.hostname
          /\ t.out.r.command = command
          /\ t.ev # "completed" =>
                /\ ~t.out.r.success
                /\ t.out.r.exit_code = -1
                /\ t.out.r.stdout = "" /\ t.out.r.stderr = ""
                /\ t.out.r.error \in {<<Str(e)>> : e \in errs}
          /\ t.ev = "completed" =>
                /\ t.out.r.exit_code = t.status
                /\ t.out.r.success = (t.status = 0)
                /\ t.out.r.error = <<>>

\* C9 witness: "exit 7" ran to completion: exit_code 7, success FALSE, no
\* error.
C9_Witness ==
    \E i \in DOMAIN tasks :
       /\ tasks[i].ev = "completed"
       /\ command = "exit 7"
       /\ tasks[i].out.r.exit_code = 7
       /\ ~tasks[i].out.r.success
       /\ tasks[i].out.r.error = <<>>

\* C10, as claimed: in every TaskResult of execute_command, exit_code = -1
\* exactly when the error field is populated.
C10_SentinelIffError ==
    \A i \in At({"done", "collected"}) :
       tasks[i].out.kind = "result" =>
          ((tasks[i].out.r.exit_code = -1) <=> (tasks[i].out.r.error # <<>>))

\* C11: the ledger only grows at its end: a step changes it only when an
\* execute_parallel call returns (monitor_system's get_system_info calls are
\* such calls, made without a callback), and that step appends the sequence
\* the call returns, so the ledger is the concatenation of the returned
\* sequences in call order; no step removes or reorders an entry.
C11_LedgerAppendOnly ==
    [][/\ Len(ledger') >= Len(ledger)
       /\ SubSeq(ledger', 1, Len(ledger)) = ledger
       /\ (mpc = "collect" /\ mpc' = "idle") =>
             ledger' = ledger \o returned'
       /\ (ledger' # ledger \/ returned' # returned) =>
             (mpc = "collect" /\ mpc' = "idle")]_vars

\* C11 witness: two calls returned one result each, and the ledger holds
\* the first call's result followed by the second call's.
C11_Witness ==
    /\ mpc = "idle"
    /\ calls = 2
    /\ Len(returned) = 1
    /\ Len(ledger) = 2
    /\ ledger[2] = returned[1]
    /\ ledger[1] # ledger[2]

\* C15, as claimed: the results of two futures of one call that were
\* submitted for different labels carry different host values.
C15_HostFieldIdentifiesLabel ==
    \A i, j \in At({"done", "collected"}) :
       /\ tasks[i].out.kind = "result"
       /\ tasks[j].out.kind = "result"
       /\ tasks[i].label # tasks[j].label
       => tasks[i].out.r.host # tasks[j].out.r.host

\* C17, as claimed: every session the pool created is still in the pool or
\* had close() called on it.
C17_InactiveSessionDestroyed ==
    \A s \in DOMAIN sessions :
       s \in Values(connections) \/ sessions[s].closeTried

\* C18, as claimed: no two workers are between exec_command and
\* recv_exit_status on the same session at the same time.
C18_NoConcurrentUse ==
    \A i, j \in At({"running"}) : i # j => tasks[i].ssh # tasks[j].ssh

\* C19, as claimed: while one worker is inside the connect of its identity,
\* a worker about to look up another identity, whose session is pooled and
\* active, can complete its get_connection.
C19_ConnectDoesNotStallOthers ==
    \A i, j \in DOMAIN tasks :
       /\ tasks[i].pc = "connecting"
       /\ tasks[j].pc = "start"
       /\ HostKey(tasks[j].host) # HostKey(tasks[i].host)
       /\ PoolHit(HostKey(tasks[j].host))
       => ENABLED GetConnCheck(j)

\* A step of get_connection: a worker's, or transfer_file's.
GetConnectionStep ==
    \/ \E i \in DOMAIN tasks :
          /\ tasks[i].pc \in {"start", "connecting"}
          /\ tasks' # <<>>
          /\ tasks'[i].pc # tasks[i].pc
    \/ transfers' # transfers

\* A step of an executor after its get_connection returned: exec_command
\* and the reads of execute_command, or the sftp part of transfer_file.
ExecutorStep ==
    \/ \E i \in DOMAIN tasks :
          /\ tasks[i].pc \in {"connected", "running"}
          /\ tasks'[i].pc # tasks[i].pc
    \/ xfer.pc = "connected" /\ xfer'.pc # "connected"

\* C20: no step of execute_command or transfer_file after get_connection
\* returned changes the pool's mapping or any session, whether the
\* operation succeeds or fails; the mapping changes, and a session is closed
\* or leaves the pool, only in a step of get_connection or of close_all.
C20_ExecutorsOnlyBorrow ==
    [][/\ ExecutorStep => connections' = connections /\ sessions' = sessions
       /\ ( \/ connections' # connections
            \/ \E s \in DOMAIN sessions :
                  \/ sessions'[s].pool # sessions[s].pool
                  \/ sessions'[s].closeTried # sessions[s].closeTried
                  \/ /\ sessions'[s].transport = "closed"
                     /\ sessions[s].transport # "closed" )
            => GetConnectionStep \/ CloseAll]_vars

\* C20 witness: a transfer failed and then a command's read failed, both on
\* the one session ever connected, which is still pooled and active.
C20_Witness ==
    /\ xfer.pc = "done" /\ xfer.ev = "failed"
    /\ Len(sessions) = 1
    /\ connections = Put(EmptyDict, HostKey(sessions[1].host), 1)
    /\ sessions[1].transport = "active"
    /\ \E i \in DOMAIN tasks :
          tasks[i].pc = "done" /\ tasks[i].ev = "read_failed"

\* C16: at no time are more than max_concurrent futures inside
\* execute_command, however many labels were accepted, and every future that
\* waits in the executor's queue is eventually run to its result.
C16_BoundedConcurrency ==
    /\ [](Cardinality(Busy) <= max_concurrent)
    /\ \A i \in 1..MaxLen :
          (i \in DOMAIN tasks /\ tasks[i].pc = "queued")
             ~> (i \in DOMAIN tasks /\ tasks[i].pc = "done")

\* C16 witness: with max_concurrent = 1 and two accepted labels, the second
\* future waits in the queue while the first one's command runs.
C16_Witness ==
    /\ max_concurrent = 1
    /\ Len(tasks) = 2
    /\ tasks[1].pc = "running"
    /\ tasks[2].pc = "queued"

\* open_channel raised for the connection just accepted.
ChannelOpenFails ==
    /\ tunnel.pc = "opening"
    /\ tunnel'.pc # "opening"
    /\ relays'[Len(relays)].chan = "none"

\* C12, as claimed: when open_channel fails on a live transport for one
\* accepted connection, that connection's local socket is closed, the worker
\* is back at accept with its listener and its transport as they were, and
\* the relay pairs of the earlier connections are untouched.
C12_ChannelFailureIsolated ==
    [][ChannelOpenFails /\ tunnel.ssh = "active" =>
          /\ relays'[Len(relays)].sock = "closed"
          /\ tunnel'.pc = "accept"
          /\ tunnel'.listener = "listening"
          /\ tunnel'.ssh = "active"
          /\ \A c \in 1..(Len(relays) - 1) : relays'[c] = relays[c]]_vars

\* The positions of a forward_data thread that left its loop.
LeftLoop == {"finally", "closing", "done"}

\* C13, as claimed: once one of the two relay threads of a connection has
\* left its loop (a zero-length read or an error), both threads eventually
\* end and both endpoints are closed.
C13_RelayPairTerminates ==
    \A c \in 1..MaxConns :
       (c \in DOMAIN relays
           /\ (relays[c].up \in LeftLoop \/ relays[c].down \in LeftLoop))
          ~> (/\ c \in DOMAIN relays
              /\ relays[c].up = "done" /\ relays[c].down = "done"
              /\ relays[c].sock = "closed" /\ relays[c].chan = "closed")

\* The relay pair of connection c is running.
Relaying(c) ==
    /\ relays[c].chan = "open" /\ relays[c].sock = "open"
    /\ relays[c].up \in {"recv", "send"}
    /\ relays[c].down \in {"recv", "send"}

\* C14: a worker whose connect failed has ended, with no listener bound and
\* no connection accepted, and a worker that ended stays ended; a listener
\* is bound only after the connect succeeded; and every open_channel that
\* succeeds starts the connection's two relay threads and takes the worker
\* back to accept, where it can take the next client, with the relay pairs
\* of the earlier connections left as they are.
C14_TunnelLifecycle ==
    /\ [](tunnel.ev = "connect_failed" =>
            /\ tunnel.pc = "stopped"
            /\ tunnel.listener = "none"
            /\ relays = <<>>)
    /\ [](tunnel.listener = "listening" => tunnel.ssh # "none")
    /\ [](tunnel.pc = "accept" /\ Len(relays) < MaxConns =>
            ENABLED TunnelAccept)
    /\ [][/\ ( tunnel.pc = "connecting" /\ tunnel'.pc # "connecting"
                /\ tunnel'.ssh # "active"
                => tunnel'.pc = "stopped" /\ tunnel'.ev = "connect_failed" )
          /\ ( tunnel.pc = "stopped" => tunnel'.pc = "stopped" )
          /\ ( tunnel.pc = "opening" /\ relays'[Len(relays)].chan = "open"
                => /\ tunnel'.pc = "accept"
                   /\ tunnel'.listener = "listening"
                   /\ relays'[Len(relays)].up = "recv"
                   /\ relays'[Len(relays)].down = "recv"
                   /\ \A c \in 1..(Len(relays) - 1) :
                         relays'[c] = relays[c] )]_vars

\* C14 witness: the worker is back at accept after its second client, whose
\* relay pair runs at the same time as the first client's.
C14_Witness ==
    /\ tunnel.pc = "accept"
    /\ Len(relays) = 2
    /\ Relaying(1)
    /\ Relaying(2)

\* The SSHClient objects that connected: the pool's and the tunnel's.
Clients ==
    Len(sessions) + (IF tunnel.ssh \in {"active", "dead"} THEN 1 ELSE 0)

\* The active pooled session of the tunnel's identity, if there is one.
TunnelPooled ==
    {s \in PooledFor(TunnelHost) : sessions[s].transport = "active"}

\* C21, as claimed: a tunnel worker that starts while its identity has an
\* active pooled session connects no further SSHClient, and a close_all
\* that closes the pooled session of the tunnel's identity closes the
\* transport the tunnel's channels are opened on.
C21_TunnelUsesPool ==
    [][/\ ( /\ tunnel.pc = "connecting"
            /\ tunnel'.ssh = "active"
            /\ TunnelPooled # {}
            => Clients' = Clients )
       /\ ( /\ CloseAll
            /\ tunnel.ssh = "active"
            /\ \E s \in TunnelPooled : sessions'[s].transport = "closed"
            => tunnel'.ssh # "active" )]_vars

====
